---------------------------- MODULE Spec2Model ----------------------------
(***************************************************************************)
(* Sparse Merkle tree proof verifier (c/ckb_smt.h): the leaf staging       *)
(* buffer smt_state_t with insert / fetch / normalize, the stack machine   *)
(* smt_calculate_root and the facade smt_verify.                           *)
(*                                                                         *)
(* A 32-byte C array a[0..31] is the sequence <<a[0], ..., a[31]>>, so the *)
(* C index i is the sequence index i + 1.  pairs is the buffer the state   *)
(* is bound to, a sequence of records in the same way; it has capacity     *)
(* slots, or more once smt_state_init has been called again on it with a   *)
(* smaller capacity.                                                       *)
(***************************************************************************)
EXTENDS Integers, Sequences, FiniteSets, TLC

(***************************************************************************)
(* Program constants.                                                      *)
(***************************************************************************)
_SMT_STACK_SIZE == 32
SMT_KEY_BYTES == 32
SMT_VALUE_BYTES == 32
ERROR_INSUFFICIENT_CAPACITY == 80
ERROR_NOT_FOUND == 81
ERROR_INVALID_STACK == 82
ERROR_INVALID_SIBLING == 83
ERROR_INVALID_PROOF == 84

(***************************************************************************)
(* Bounds of the model: the largest capacity of a staging buffer, the most *)
(* leaves of a proof, and the number of leading proof bytes a bit flip may *)
(* hit.                                                                    *)
(***************************************************************************)
MaxCapacity == 3
MaxLeaves == 3
MaxFlipByte == 3

(***************************************************************************)
(* Byte arrays.                                                            *)
(***************************************************************************)
Zero32 == [i \in 1..32 |-> 0]

\* A byte, or a uint32_t, of memory the program has allocated and not yet
\* written.  C leaves its content indeterminate: it is whatever the heap or
\* the machine stack held, and differs from run to run and from build to
\* build.  Indeterminate stands for every such content at once; it is no
\* value of 0..255, so nothing the program has written equals it.  The code
\* reads no memory before writing it (ReadsDeterminate below).
Indeterminate == -1

\* 32 bytes not yet written.
Uninit32 == [i \in 1..32 |-> Indeterminate]

\* data holds written bytes only.
Determinate32(data) == \A i \in 1..32 : data[i] \in 0..255

\* The 32-byte array that is b at C index at and zero elsewhere.
ByteAt(at, b) == [i \in 1..32 |-> IF i = at + 1 THEN b ELSE 0]

\* memcpy(dst, src, n) of the first n bytes.
memcpy(dst, src, n) ==
    IF n = Len(dst) /\ n = Len(src) THEN src
    ELSE [i \in 1..Len(dst) |-> IF i <= n THEN src[i] ELSE dst[i]]

\* memcmp(a, b, n) == 0.
memcmp_eq(a, b, n) ==
    IF n = Len(a) /\ n = Len(b) THEN a = b ELSE \A i \in 1..n : a[i] = b[i]

(***************************************************************************)
(* Keys and values the staging-buffer specification inserts.  KeyLow2 and  *)
(* KeyMixed are ordered one way by byte 31 and the other way by byte 0.    *)
(* KeyZero is fetched but never inserted.                                  *)
(***************************************************************************)
KeyZero == Zero32
KeyLow2 == ByteAt(0, 2)
KeyMixed == [i \in 1..32 |-> IF i = 1 THEN 1 ELSE IF i = 32 THEN 1 ELSE 0]
StateKeys == {KeyLow2, KeyMixed}
FetchKeys == StateKeys \cup {KeyZero}
ValueOne == ByteAt(0, 1)
ValueTwo == ByteAt(0, 2)
StateValues == {ValueOne, ValueTwo}

(***************************************************************************)
(* smt_pair_t and smt_state_t.                                             *)
(***************************************************************************)
smt_pair_t(k, v, o) == [key |-> k, value |-> v, order |-> o]

\* An entry of a buffer malloc returned, before anything is written to it:
\* malloc does not initialise the block, and neither does smt_state_init.
UninitPair == smt_pair_t(Uninit32, Uninit32, Indeterminate)

\* smt_state_init: binds the buffer as it is, sets len and capacity.
smt_state_init(buffer, capacity) ==
    [pairs |-> buffer, len |-> 0, capacity |-> capacity]

\* smt_state_new(capacity): init over a malloc'ed block of capacity entries,
\* none of them written.
smt_state_new(capacity) ==
    smt_state_init([i \in 1..capacity |-> UninitPair], capacity)

\* int32_t i = state->len - 1; for (; i >= 0; i--) if (memcmp(...) == 0) break;
\* The index the scan stops at, -1 when it runs off the front.
RECURSIVE ScanDown(_, _, _)
ScanDown(pairs, key, i) ==
    IF i < 0 THEN -1
    ELSE IF memcmp_eq(key, pairs[i + 1].key, SMT_KEY_BYTES) THEN i
    ELSE ScanDown(pairs, key, i - 1)

\* A scan from the front: the lowest matching index.
RECURSIVE ScanUpFrom(_, _, _, _)
ScanUpFrom(pairs, key, i, len) ==
    IF i >= len THEN -1
    ELSE IF memcmp_eq(key, pairs[i + 1].key, SMT_KEY_BYTES) THEN i
    ELSE ScanUpFrom(pairs, key, i + 1, len)

\* Faulty variant of smt_state_insert: the overwrite hits the lowest matching index.
smt_state_insert_first(state, key, value) ==
    IF state.len < state.capacity
    THEN [state |-> [state EXCEPT
                       !.pairs[state.len + 1].key = memcpy(@, key, SMT_KEY_BYTES),
                       !.pairs[state.len + 1].value = memcpy(@, value, SMT_KEY_BYTES),
                       !.len = @ + 1],
          ret |-> 0]
    ELSE LET i == ScanUpFrom(state.pairs, key, 0, state.len)
         IN IF i < 0
            THEN [state |-> state, ret |-> ERROR_INSUFFICIENT_CAPACITY]
            ELSE [state |-> [state EXCEPT
                               !.pairs[i + 1].value = memcpy(@, value, SMT_VALUE_BYTES)],
                  ret |-> 0]

\* Faulty variant of smt_state_insert: the capacity test is <= instead of <, so a
\* full state appends one slot past the end of the buffer.
smt_state_insert_offbyone(state, key, value) ==
    IF state.len <= state.capacity
    THEN [state |-> [state EXCEPT
                       !.pairs = IF state.len < Len(@)
                                 THEN [@ EXCEPT ![state.len + 1] =
                                         smt_pair_t(key, value, @.order)]
                                 ELSE Append(@, smt_pair_t(key, value, 0)),
                       !.len = @ + 1],
          ret |-> 0]
    ELSE LET i == ScanDown(state.pairs, key, state.len - 1)
         IN IF i < 0
            THEN [state |-> state, ret |-> ERROR_INSUFFICIENT_CAPACITY]
            ELSE [state |-> [state EXCEPT
                               !.pairs[i + 1].value = memcpy(@, value, SMT_VALUE_BYTES)],
                  ret |-> 0]

\* smt_state_insert: the state after the call and the returned code.  len is
\* a uint32_t and i an int32_t: len - 1 is -1 when len is 0.
smt_state_insert(state, key, value) ==
    IF state.len < state.capacity
    THEN [state |-> [state EXCEPT
                       !.pairs[state.len + 1].key = memcpy(@, key, SMT_KEY_BYTES),
                       !.pairs[state.len + 1].value = memcpy(@, value, SMT_KEY_BYTES),
                       !.len = @ + 1],
          ret |-> 0]
    ELSE LET i == ScanDown(state.pairs, key, state.len - 1)
         IN IF i < 0
            THEN [state |-> state, ret |-> ERROR_INSUFFICIENT_CAPACITY]
            ELSE [state |-> [state EXCEPT
                               !.pairs[i + 1].value = memcpy(@, value, SMT_VALUE_BYTES)],
                  ret |-> 0]

\* Faulty variant of smt_state_fetch: the scan runs from index 0 upward.
smt_state_fetch_forward(state, key, value) ==
    LET i == ScanUpFrom(state.pairs, key, 0, state.len)
    IN IF i < 0
       THEN [value |-> value, ret |-> ERROR_NOT_FOUND]
       ELSE [value |-> memcpy(value, state.pairs[i + 1].value, SMT_VALUE_BYTES),
             ret |-> 0]

\* smt_state_fetch: the caller's value buffer after the call and the
\* returned code.
smt_state_fetch(state, key, value) ==
    LET i == ScanDown(state.pairs, key, state.len - 1)
    IN IF i < 0
       THEN [value |-> value, ret |-> ERROR_NOT_FOUND]
       ELSE [value |-> memcpy(value, state.pairs[i + 1].value, SMT_VALUE_BYTES),
             ret |-> 0]

\* The first byte difference pa->key[i] - pb->key[i] from index i downward,
\* 0 when the keys agree on bytes i..0.
RECURSIVE KeyCmpFrom(_, _, _)
KeyCmpFrom(ka, kb, i) ==
    IF i < 0 THEN 0
    ELSE LET cmp_result == ka[i + 1] - kb[i + 1]
         IN IF cmp_result /= 0 THEN cmp_result ELSE KeyCmpFrom(ka, kb, i - 1)

\* The same from index i upward to byte 31.
RECURSIVE KeyCmpUpFrom(_, _, _)
KeyCmpUpFrom(ka, kb, i) ==
    IF i >= SMT_KEY_BYTES THEN 0
    ELSE LET cmp_result == ka[i + 1] - kb[i + 1]
         IN IF cmp_result /= 0 THEN cmp_result ELSE KeyCmpUpFrom(ka, kb, i + 1)

\* Faulty variant of _smt_pair_cmp: byte 0 is the most significant.
_smt_pair_cmp_lex(pa, pb) ==
    LET k == KeyCmpUpFrom(pa.key, pb.key, 0)
    IN IF k /= 0 THEN k ELSE pa.order - pb.order

\* Faulty variant of _smt_pair_cmp: ties are broken by descending order.
_smt_pair_cmp_oldest(pa, pb) ==
    LET k == KeyCmpFrom(pa.key, pb.key, SMT_KEY_BYTES - 1)
    IN IF k /= 0 THEN k ELSE pb.order - pa.order

\* _smt_pair_cmp.  The orders are uint32_t values in 1..len, so their
\* difference converted to int is the signed difference.
_smt_pair_cmp(pa, pb) ==
    LET k == KeyCmpFrom(pa.key, pb.key, SMT_KEY_BYTES - 1)
    IN IF k /= 0 THEN k ELSE pa.order - pb.order

\* qsort with _smt_pair_cmp: the pairs carry distinct orders, so the
\* comparison is a strict total order and the sorted array is unique.
RECURSIVE SortedInsert(_, _)
SortedInsert(sorted, p) ==
    IF sorted = <<>> THEN <<p>>
    ELSE IF _smt_pair_cmp(p, Head(sorted)) < 0 THEN <<p>> \o sorted
    ELSE <<Head(sorted)>> \o SortedInsert(Tail(sorted), p)

RECURSIVE qsort(_)
qsort(s) ==
    IF s = <<>> THEN <<>>
    ELSE SortedInsert(qsort(SubSeq(s, 1, Len(s) - 1)), s[Len(s)])

\* Faulty variant of SkipRun: an if in place of the while, skipping at most one entry.
SkipRun_once(pairs, len, item_index, next) ==
    IF next < len /\ memcmp_eq(pairs[item_index + 1].key, pairs[next + 1].key,
                               SMT_KEY_BYTES)
    THEN next + 1
    ELSE next

\* The inner while loop of smt_state_normalize: next after skipping the
\* entries whose key equals that of item_index.
RECURSIVE SkipRun(_, _, _, _)
SkipRun(pairs, len, item_index, next) ==
    IF next < len /\ memcmp_eq(pairs[item_index + 1].key, pairs[next + 1].key,
                               SMT_KEY_BYTES)
    THEN SkipRun(pairs, len, item_index, next + 1)
    ELSE next

\* Faulty variant of RemoveDuplicates: an entry moved down takes its key along
\* but not its value.
RECURSIVE RemoveDuplicates_keyonly(_, _, _, _)
RemoveDuplicates_keyonly(pairs, len, sorted, next) ==
    IF next < len
    THEN LET item_index == next
             next2 == SkipRun(pairs, len, item_index, next + 1)
             pairs2 == IF item_index /= sorted
                       THEN [pairs EXCEPT
                               ![sorted + 1].key =
                                   memcpy(@, pairs[item_index + 1].key, SMT_KEY_BYTES)]
                       ELSE pairs
         IN RemoveDuplicates_keyonly(pairs2, len, sorted + 1, next2)
    ELSE [pairs |-> pairs, len |-> sorted]

\* The outer while loop of smt_state_normalize from (sorted, next).
RECURSIVE RemoveDuplicates(_, _, _, _)
RemoveDuplicates(pairs, len, sorted, next) ==
    IF next < len
    THEN LET item_index == next
             next2 == SkipRun(pairs, len, item_index, next + 1)
             pairs2 == IF item_index /= sorted
                       THEN [pairs EXCEPT
                               ![sorted + 1].key =
                                   memcpy(@, pairs[item_index + 1].key, SMT_KEY_BYTES),
                               ![sorted + 1].value =
                                   memcpy(@, pairs[item_index + 1].value, SMT_VALUE_BYTES)]
                       ELSE pairs
         IN RemoveDuplicates(pairs2, len, sorted + 1, next2)
    ELSE [pairs |-> pairs, len |-> sorted]

\* smt_state_normalize.
smt_state_normalize(state) ==
    LET ordered == [i \in 1..Len(state.pairs) |->
                      IF i <= state.len
                      THEN [state.pairs[i] EXCEPT !.order = state.len - (i - 1)]
                      ELSE state.pairs[i]]
        sorted == qsort(SubSeq(ordered, 1, state.len))
                    \o SubSeq(ordered, state.len + 1, Len(state.pairs))
        r == RemoveDuplicates(sorted, state.len, 0, 0)
    IN [state EXCEPT !.pairs = r.pairs, !.len = r.len]

(***************************************************************************)
(* BLAKE2b-256 of a 64-byte message a || b.  The hash is external to the   *)
(* repository; it is modelled as a packing of the message into 32 bytes:   *)
(* each half is written either densely (its length up to the last non-zero *)
(* byte, then those bytes) or sparsely (128 + the number of non-zero       *)
(* bytes, then an (index, byte) pair for each), whichever is shorter, so   *)
(* each half can be read back and two different messages never share a     *)
(* digest.  A message whose packing does not fit in 32 bytes is outside    *)
(* the model: its digest is the reserved value Blake2bOverflow, whose own  *)
(* packing never fits, so every digest computed from it is reserved too.   *)
(***************************************************************************)
Max(S) == CHOOSE x \in S : \A y \in S : y <= x

Blake2bOverflow == [i \in 1..32 |-> 255]

RECURSIVE SparseFrom(_, _)
SparseFrom(x, i) ==
    IF i > 32 THEN <<>>
    ELSE IF x[i] /= 0 THEN <<i, x[i]>> \o SparseFrom(x, i + 1)
    ELSE SparseFrom(x, i + 1)

Pack(x) ==
    LET nz == {i \in 1..32 : x[i] /= 0}
        n == IF nz = {} THEN 0 ELSE Max(nz)
    IN IF 2 * Cardinality(nz) <= n
       THEN <<128 + Cardinality(nz)>> \o SparseFrom(x, 1)
       ELSE <<n>> \o SubSeq(x, 1, n)

blake2b(a, b) ==
    LET s == Pack(a) \o Pack(b)
    IN IF Len(s) <= 32
       THEN [i \in 1..32 |-> IF i <= Len(s) THEN s[i] ELSE 0]
       ELSE Blake2bOverflow

(***************************************************************************)
(* Bit and path helpers.                                                   *)
(***************************************************************************)
\* 1 when the bit is set, 0 otherwise.
_smt_get_bit(data, offset) ==
    LET byte_pos == offset \div 8
        bit_pos == offset % 8
    IN (data[byte_pos + 1] \div (2 ^ bit_pos)) % 2

_smt_set_bit(data, offset) ==
    LET byte_pos == offset \div 8
        bit_pos == offset % 8
    IN [data EXCEPT ![byte_pos + 1] =
          IF (@ \div (2 ^ bit_pos)) % 2 = 1 THEN @ ELSE @ + 2 ^ bit_pos]

_smt_clear_bit(data, offset) ==
    LET byte_pos == offset \div 8
        bit_pos == offset % 8
    IN [data EXCEPT ![byte_pos + 1] =
          IF (@ \div (2 ^ bit_pos)) % 2 = 1 THEN @ - 2 ^ bit_pos ELSE @]

\* for (int i = first_byte * 8; i < first_kept_bit; i++) _smt_clear_bit(source, i);
RECURSIVE ClearBitsFrom(_, _, _)
ClearBitsFrom(source, i, first_kept_bit) ==
    IF i < first_kept_bit
    THEN ClearBitsFrom(_smt_clear_bit(source, i), i + 1, first_kept_bit)
    ELSE source

_smt_copy_bits(source, first_kept_bit) ==
    LET first_byte == first_kept_bit \div 8
        zeroed == [i \in 1..32 |-> IF i - 1 < first_byte THEN 0 ELSE source[i]]
    IN ClearBitsFrom(zeroed, first_byte * 8, first_kept_bit)

_smt_parent_path(key, height) ==
    IF height = 255
    THEN Zero32
    ELSE _smt_copy_bits(key, height + 1)

_smt_zero_value(value) == \A i \in 1..32 : value[i] = 0

\* Faulty variant of _smt_merge: the operands are hashed in the opposite order.
_smt_merge_swapped(lhs, rhs) ==
    IF _smt_zero_value(lhs) THEN rhs
    ELSE IF _smt_zero_value(rhs) THEN lhs
    ELSE blake2b(rhs, lhs)

\* Faulty variant of _smt_merge: a zero rhs is hashed like any other.
_smt_merge_hashzero(lhs, rhs) ==
    IF _smt_zero_value(lhs) THEN rhs
    ELSE blake2b(lhs, rhs)

\* _smt_merge: the bytes written to output.
_smt_merge(lhs, rhs) ==
    IF _smt_zero_value(lhs) THEN rhs
    ELSE IF _smt_zero_value(rhs) THEN lhs
    ELSE blake2b(lhs, rhs)

(***************************************************************************)
(* smt_calculate_root.  Its locals and its position are the record         *)
(*   pc            "loop" at the head of the while loop, "ret" once it has *)
(*                 returned                                                *)
(*   proof_index, leave_index, stack_top, stack_keys, stack_values         *)
(*   buffer        the caller's 32-byte output                             *)
(*   ret           the returned code                                       *)
(*   line          the source line of the return statement taken           *)
(* stack_keys[i] and stack_values[i] of the code are at index i + 1.  The  *)
(* stack arrays are locals the code does not initialise: every frame is    *)
(* Uninit32 until an L writes it.  The code reads a frame only below       *)
(* stack_top.  buffer is the caller's array as it was handed in.           *)
(***************************************************************************)
OpcodeL == 76
OpcodeP == 80
OpcodeH == 72

Entry(buffer) ==
    [pc |-> "loop", proof_index |-> 0, leave_index |-> 0, stack_top |-> 0,
     stack_keys |-> [i \in 1.._SMT_STACK_SIZE |-> Uninit32],
     stack_values |-> [i \in 1.._SMT_STACK_SIZE |-> Uninit32],
     buffer |-> buffer, ret |-> 0, line |-> 0]

Return(m, code, line) == [m EXCEPT !.pc = "ret", !.ret = code, !.line = line]

\* The opcode the loop iteration reads: proof[proof_index++].
Opcode(m, proof) == proof[m.proof_index + 1]

\* Faulty variant of Case0x4C: a zero value is hashed like any other.
Case0x4C_hashzero(m, pairs, proof) ==
    LET m1 == [m EXCEPT !.proof_index = @ + 1]
    IN IF m.stack_top >= _SMT_STACK_SIZE THEN Return(m1, ERROR_INVALID_STACK, 193)
       ELSE IF m.leave_index >= pairs.len THEN Return(m1, ERROR_INVALID_PROOF, 196)
       ELSE LET p == pairs.pairs[m.leave_index + 1]
            IN [m1 EXCEPT
                  !.stack_keys[m.stack_top + 1] = memcpy(@, p.key, SMT_KEY_BYTES),
                  !.stack_values[m.stack_top + 1] = blake2b(p.key, p.value),
                  !.stack_top = @ + 1,
                  !.leave_index = @ + 1]

\* Faulty variant of Case0x4C: the stack test is > instead of >=.
Case0x4C_offbyone(m, pairs, proof) ==
    LET m1 == [m EXCEPT !.proof_index = @ + 1]
    IN IF m.stack_top > _SMT_STACK_SIZE THEN Return(m1, ERROR_INVALID_STACK, 193)
       ELSE IF m.leave_index >= pairs.len THEN Return(m1, ERROR_INVALID_PROOF, 196)
       ELSE LET p == pairs.pairs[m.leave_index + 1]
            IN [m1 EXCEPT
                  !.stack_keys[m.stack_top + 1] = memcpy(@, p.key, SMT_KEY_BYTES),
                  !.stack_values[m.stack_top + 1] =
                      IF _smt_zero_value(p.value)
                      THEN Zero32
                      ELSE blake2b(p.key, p.value),
                  !.stack_top = @ + 1,
                  !.leave_index = @ + 1]

\* case 0x4C.
Case0x4C(m, pairs, proof) ==
    LET m1 == [m EXCEPT !.proof_index = @ + 1]
    IN IF m.stack_top >= _SMT_STACK_SIZE THEN Return(m1, ERROR_INVALID_STACK, 193)
       ELSE IF m.leave_index >= pairs.len THEN Return(m1, ERROR_INVALID_PROOF, 196)
       ELSE LET p == pairs.pairs[m.leave_index + 1]
            IN [m1 EXCEPT
                  !.stack_keys[m.stack_top + 1] = memcpy(@, p.key, SMT_KEY_BYTES),
                  !.stack_values[m.stack_top + 1] =
                      IF _smt_zero_value(p.value)
                      THEN Zero32
                      ELSE blake2b(p.key, p.value),
                  !.stack_top = @ + 1,
                  !.leave_index = @ + 1]

\* Faulty variant of Case0x50: the key bit is read after the key is rewritten.
Case0x50_bitafter(m, pairs, proof) ==
    LET m1 == [m EXCEPT !.proof_index = @ + 1]
        pi == m1.proof_index
    IN IF m.stack_top = 0 THEN Return(m1, ERROR_INVALID_STACK, 215)
       ELSE IF pi + 33 > Len(proof) THEN Return(m1, ERROR_INVALID_PROOF, 218)
       ELSE LET height == proof[pi + 1]
                current_proof == SubSeq(proof, pi + 2, pi + 33)
                key == _smt_parent_path(m.stack_keys[m.stack_top], height)
                value == m.stack_values[m.stack_top]
            IN [m1 EXCEPT
                  !.proof_index = pi + 33,
                  !.stack_values[m.stack_top] =
                      IF _smt_get_bit(key, height) = 1
                      THEN _smt_merge(current_proof, value)
                      ELSE _smt_merge(value, current_proof),
                  !.stack_keys[m.stack_top] = key]

\* Faulty variant of Case0x50: the operand length is tested before the stack.
Case0x50_lengthfirst(m, pairs, proof) ==
    LET m1 == [m EXCEPT !.proof_index = @ + 1]
        pi == m1.proof_index
    IN IF pi + 33 > Len(proof) THEN Return(m1, ERROR_INVALID_PROOF, 218)
       ELSE IF m.stack_top = 0 THEN Return(m1, ERROR_INVALID_STACK, 215)
       ELSE LET height == proof[pi + 1]
                current_proof == SubSeq(proof, pi + 2, pi + 33)
                key == m.stack_keys[m.stack_top]
                value == m.stack_values[m.stack_top]
            IN [m1 EXCEPT
                  !.proof_index = pi + 33,
                  !.stack_values[m.stack_top] =
                      IF _smt_get_bit(key, height) = 1
                      THEN _smt_merge(current_proof, value)
                      ELSE _smt_merge(value, current_proof),
                  !.stack_keys[m.stack_top] = _smt_parent_path(key, height)]

\* case 0x50.
Case0x50(m, pairs, proof) ==
    LET m1 == [m EXCEPT !.proof_index = @ + 1]
        pi == m1.proof_index
    IN IF m.stack_top = 0 THEN Return(m1, ERROR_INVALID_STACK, 215)
       ELSE IF pi + 33 > Len(proof) THEN Return(m1, ERROR_INVALID_PROOF, 218)
       ELSE LET height == proof[pi + 1]
                current_proof == SubSeq(proof, pi + 2, pi + 33)
                key == m.stack_keys[m.stack_top]
                value == m.stack_values[m.stack_top]
            IN [m1 EXCEPT
                  !.proof_index = pi + 33,
                  !.stack_values[m.stack_top] =
                      IF _smt_get_bit(key, height) = 1
                      THEN _smt_merge(current_proof, value)
                      ELSE _smt_merge(value, current_proof),
                  !.stack_keys[m.stack_top] = _smt_parent_path(key, height)]

\* Faulty variant of Case0x48: stack_top is not raised again after the merge.
Case0x48_nopush(m, pairs, proof) ==
    LET m1 == [m EXCEPT !.proof_index = @ + 1]
        pi == m1.proof_index
    IN IF m.stack_top < 2 THEN Return(m1, ERROR_INVALID_STACK, 234)
       ELSE IF pi >= Len(proof) THEN Return(m1, ERROR_INVALID_PROOF, 237)
       ELSE LET height == proof[pi + 1]
                a == m.stack_top - 1
                b == m.stack_top
                value_a == m.stack_values[a]
                value_b == m.stack_values[b]
                a_set == _smt_get_bit(m.stack_keys[a], height)
                b_set == _smt_get_bit(m.stack_keys[b], height)
                key_a == _smt_copy_bits(m.stack_keys[a], height)
                key_b == _smt_copy_bits(m.stack_keys[b], height)
                sibling_key_a == IF a_set = 0 THEN _smt_set_bit(key_a, height)
                                 ELSE key_a
                m2 == [m1 EXCEPT !.proof_index = pi + 1,
                                 !.stack_top = @ - 2,
                                 !.stack_keys[a] = key_a,
                                 !.stack_keys[b] = key_b]
            IN IF ~memcmp_eq(sibling_key_a, key_b, 32) \/ a_set = b_set
               THEN Return(m2, ERROR_INVALID_SIBLING, 255)
               ELSE [m2 EXCEPT
                       !.stack_values[a] =
                           IF a_set = 1
                           THEN _smt_merge(value_b, value_a)
                           ELSE _smt_merge(value_a, value_b)]

\* Faulty variant of Case0x48: the test a_set == b_set is left out.
Case0x48_samebit(m, pairs, proof) ==
    LET m1 == [m EXCEPT !.proof_index = @ + 1]
        pi == m1.proof_index
    IN IF m.stack_top < 2 THEN Return(m1, ERROR_INVALID_STACK, 234)
       ELSE IF pi >= Len(proof) THEN Return(m1, ERROR_INVALID_PROOF, 237)
       ELSE LET height == proof[pi + 1]
                a == m.stack_top - 1
                b == m.stack_top
                value_a == m.stack_values[a]
                value_b == m.stack_values[b]
                a_set == _smt_get_bit(m.stack_keys[a], height)
                key_a == _smt_copy_bits(m.stack_keys[a], height)
                key_b == _smt_copy_bits(m.stack_keys[b], height)
                sibling_key_a == IF a_set = 0 THEN _smt_set_bit(key_a, height)
                                 ELSE key_a
                m2 == [m1 EXCEPT !.proof_index = pi + 1,
                                 !.stack_top = @ - 2,
                                 !.stack_keys[a] = key_a,
                                 !.stack_keys[b] = key_b]
            IN IF ~memcmp_eq(sibling_key_a, key_b, 32)
               THEN Return(m2, ERROR_INVALID_SIBLING, 255)
               ELSE [m2 EXCEPT
                       !.stack_values[a] =
                           IF a_set = 1
                           THEN _smt_merge(value_b, value_a)
                           ELSE _smt_merge(value_a, value_b),
                       !.stack_top = @ + 1]

\* case 0x48.
Case0x48(m, pairs, proof) ==
    LET m1 == [m EXCEPT !.proof_index = @ + 1]
        pi == m1.proof_index
    IN IF m.stack_top < 2 THEN Return(m1, ERROR_INVALID_STACK, 234)
       ELSE IF pi >= Len(proof) THEN Return(m1, ERROR_INVALID_PROOF, 237)
       ELSE LET height == proof[pi + 1]
                a == m.stack_top - 1
                b == m.stack_top
                value_a == m.stack_values[a]
                value_b == m.stack_values[b]
                a_set == _smt_get_bit(m.stack_keys[a], height)
                b_set == _smt_get_bit(m.stack_keys[b], height)
                key_a == _smt_copy_bits(m.stack_keys[a], height)
                key_b == _smt_copy_bits(m.stack_keys[b], height)
                sibling_key_a == IF a_set = 0 THEN _smt_set_bit(key_a, height)
                                 ELSE key_a
                m2 == [m1 EXCEPT !.proof_index = pi + 1,
                                 !.stack_top = @ - 2,
                                 !.stack_keys[a] = key_a,
                                 !.stack_keys[b] = key_b]
            IN IF ~memcmp_eq(sibling_key_a, key_b, 32) \/ a_set = b_set
               THEN Return(m2, ERROR_INVALID_SIBLING, 255)
               ELSE [m2 EXCEPT
                       !.stack_values[a] =
                           IF a_set = 1
                           THEN _smt_merge(value_b, value_a)
                           ELSE _smt_merge(value_a, value_b),
                       !.stack_top = @ + 1]

\* Faulty variant of CaseDefault: a byte that is no opcode is skipped.
CaseDefault_skip(m, pairs, proof) ==
    [m EXCEPT !.proof_index = @ + 1]

\* default.
CaseDefault(m, pairs, proof) ==
    Return([m EXCEPT !.proof_index = @ + 1], ERROR_INVALID_PROOF, 266)

\* Faulty variant of AfterLoop: the stack depth is tested before the leaf cursor.
AfterLoop_stackfirst(m, pairs, proof) ==
    IF m.stack_top /= 1 THEN Return(m, ERROR_INVALID_STACK, 274)
    ELSE IF m.leave_index /= pairs.len THEN Return(m, ERROR_INVALID_PROOF, 271)
    ELSE Return([m EXCEPT !.buffer = memcpy(@, m.stack_values[1], 32)], 0, 277)

\* Faulty variant of AfterLoop: the bottom frame is copied out before the tests.
AfterLoop_writefirst(m, pairs, proof) ==
    LET w == [m EXCEPT !.buffer = memcpy(@, m.stack_values[1], 32)]
    IN IF m.leave_index /= pairs.len THEN Return(w, ERROR_INVALID_PROOF, 271)
       ELSE IF m.stack_top /= 1 THEN Return(w, ERROR_INVALID_STACK, 274)
       ELSE Return(w, 0, 277)

\* The statements after the while loop.
AfterLoop(m, pairs, proof) ==
    IF m.leave_index /= pairs.len THEN Return(m, ERROR_INVALID_PROOF, 271)
    ELSE IF m.stack_top /= 1 THEN Return(m, ERROR_INVALID_STACK, 274)
    ELSE Return([m EXCEPT !.buffer = memcpy(@, m.stack_values[1], 32)], 0, 277)

\* One evaluation of the loop condition and what follows it.
Step(m, pairs, proof) ==
    IF m.proof_index < Len(proof)
    THEN CASE Opcode(m, proof) = OpcodeL -> Case0x4C(m, pairs, proof)
           [] Opcode(m, proof) = OpcodeP -> Case0x50(m, pairs, proof)
           [] Opcode(m, proof) = OpcodeH -> Case0x48(m, pairs, proof)
           [] OTHER -> CaseDefault(m, pairs, proof)
    ELSE AfterLoop(m, pairs, proof)

\* smt_calculate_root run from m to its return.
RECURSIVE RunFrom(_, _, _)
RunFrom(m, pairs, proof) ==
    IF m.pc = "ret" THEN m ELSE RunFrom(Step(m, pairs, proof), pairs, proof)

smt_calculate_root(buffer, pairs, proof) == RunFrom(Entry(buffer), pairs, proof)

\* Faulty variant of VerifyResult: the computed root is not compared.
VerifyResult_nocompare(ret, buffer, hash) ==
    IF ret /= 0 THEN ret ELSE 0

\* smt_verify after its call of smt_calculate_root returned ret with buffer.
VerifyResult(ret, buffer, hash) ==
    IF ret /= 0 THEN ret
    ELSE IF ~memcmp_eq(buffer, hash, 32) THEN ERROR_INVALID_PROOF
    ELSE 0

\* smt_verify: buffer is a local array passed on as it is, not initialised.
smt_verify(hash, pairs, proof) ==
    LET r == smt_calculate_root(Uninit32, pairs, proof)
    IN VerifyResult(r.ret, r.buffer, hash)

(***************************************************************************)
(* The sparse Merkle tree the proofs are about, and the prover.  Neither   *)
(* is part of the verifier's source: they follow the specification's data  *)
(* model (a tree of height 256 over the key bits, an absent leaf being     *)
(* zero), its leaf digest and merge rules, and its proof byte grammar (a   *)
(* post-order traversal of the leaves in key order).  A tree is a function *)
(* from the keys it holds to their non-zero values.                        *)
(***************************************************************************)
TreeKeyBit0 == ByteAt(0, 1)
TreeKeyLow3 == ByteAt(0, 3)
TreeKeyTop == ByteAt(31, 128)
TreeKeys == {KeyZero, TreeKeyBit0, TreeKeyLow3, TreeKeyTop}
TreeValues == {ValueOne}

SpecBit(k, i) == (k[(i \div 8) + 1] \div (2 ^ (i % 8))) % 2

SpecLeafDigest(k, v) == IF v = Zero32 THEN Zero32 ELSE blake2b(k, v)

SpecMerge(lhs, rhs) ==
    IF lhs = Zero32 THEN rhs
    ELSE IF rhs = Zero32 THEN lhs
    ELSE blake2b(lhs, rhs)

TreeValue(T, k) == IF k \in DOMAIN T THEN T[k] ELSE Zero32

\* The highest bit at which two different keys differ.
RECURSIVE TopDiffByte(_, _, _)
TopDiffByte(a, b, i) == IF a[i] /= b[i] THEN i ELSE TopDiffByte(a, b, i - 1)

RECURSIVE TopDiffBit(_, _, _)
TopDiffBit(x, y, bit) ==
    IF (x \div (2 ^ bit)) % 2 /= (y \div (2 ^ bit)) % 2 THEN bit
    ELSE TopDiffBit(x, y, bit - 1)

ForkHeight(a, b) ==
    LET i == TopDiffByte(a, b, 32)
    IN (i - 1) * 8 + TopDiffBit(a[i], b[i], 7)

\* The digest of the subtree of height h that holds exactly the keys S of T.
\* Below the highest bit f at which the keys of S differ the subtree splits
\* in two; from there up to h, and above a single leaf, every sibling is an
\* empty subtree, and merging with the zero digest changes nothing.
RECURSIVE SubtreeDigest(_, _, _)
SubtreeDigest(T, S, h) ==
    IF S = {} THEN Zero32
    ELSE IF Cardinality(S) = 1
    THEN LET k == CHOOSE j \in S : TRUE IN SpecLeafDigest(k, T[k])
    ELSE LET f == Max({ForkHeight(x[1], x[2]) : x \in {y \in S \X S : y[1] /= y[2]}})
         IN SpecMerge(SubtreeDigest(T, {k \in S : SpecBit(k, f) = 0}, f),
                      SubtreeDigest(T, {k \in S : SpecBit(k, f) = 1}, f))

TreeRoot(T) == SubtreeDigest(T, DOMAIN T, 256)

\* The digest of the sibling, at height h, of the path of key k.
SiblingDigest(T, k, h) ==
    SubtreeDigest(T, {j \in DOMAIN T : j /= k /\ ForkHeight(j, k) = h}, h)

\* The keys of S in ascending key order (byte 31 most significant).
RECURSIVE SortKeys(_)
SortKeys(S) ==
    IF S = {} THEN <<>>
    ELSE LET lo == CHOOSE k \in S :
                      \A j \in S \ {k} :
                          \E p \in 1..32 : k[p] < j[p] /\ \A q \in (p + 1)..32 : k[q] = j[q]
         IN <<lo>> \o SortKeys(S \ {lo})

\* P opcodes with a zero sibling for the heights a..b.
ZeroRun(a, b) ==
    [i \in 1..(34 * (b - a + 1)) |->
        IF (i - 1) % 34 = 0 THEN OpcodeP
        ELSE IF (i - 1) % 34 = 1 THEN a + ((i - 1) \div 34)
        ELSE 0]

\* The opcodes that follow the L of leaf k, for the heights h..hi: an H where
\* the subtree pending on the prover's stack forks from k at that height, a P
\* where the sibling is not zero (and, when full, where it is zero as well).
\* Only at the heights in forks, where a key of T forks from k, and at the
\* height on top of the stack is there anything but a zero sibling.
RECURSIVE ProveHeights(_, _, _, _, _, _, _, _)
ProveHeights(T, k, forks, h, hi, stack, acc, full) ==
    LET top == IF stack = <<>> THEN {} ELSE {stack[Len(stack)]}
        ev == {x \in forks \cup top : h <= x /\ x <= hi}
    IN IF h > hi THEN [proof |-> acc, stack |-> stack]
       ELSE IF ev = {}
       THEN [proof |-> IF full THEN acc \o ZeroRun(h, hi) ELSE acc, stack |-> stack]
       ELSE LET e == CHOOSE x \in ev : \A y \in ev : x <= y
                acc1 == IF full /\ h < e THEN acc \o ZeroRun(h, e - 1) ELSE acc
            IN IF e \in top
               THEN ProveHeights(T, k, forks, e + 1, hi, SubSeq(stack, 1, Len(stack) - 1),
                                 acc1 \o <<OpcodeH, e>>, full)
               ELSE LET s == SiblingDigest(T, k, e)
                    IN IF s /= Zero32 \/ full
                       THEN ProveHeights(T, k, forks, e + 1, hi, stack,
                                         acc1 \o <<OpcodeP, e>> \o s, full)
                       ELSE ProveHeights(T, k, forks, e + 1, hi, stack, acc1, full)

RECURSIVE ProveLeaves(_, _, _, _, _, _)
ProveLeaves(T, keys, i, stack, acc, full) ==
    IF i > Len(keys) THEN acc
    ELSE LET k == keys[i]
             last == i = Len(keys)
             fh == IF last THEN 255 ELSE ForkHeight(k, keys[i + 1])
             forks == {ForkHeight(j, k) : j \in DOMAIN T \ {k}}
             r == ProveHeights(T, k, forks, 0, IF last THEN fh ELSE fh - 1, stack,
                               acc \o <<OpcodeL>>, full)
         IN ProveLeaves(T, keys, i + 1, Append(r.stack, fh), r.proof, full)

\* The proof of the leaves with keys L (present in T or absent) against T.
Prove(T, L, full) == ProveLeaves(T, SortKeys(L), 1, <<>>, <<>>, full)

\* The trees over TreeKeys.
Trees == UNION {[D -> TreeValues] : D \in SUBSET TreeKeys}

(***************************************************************************)
(* State.                                                                  *)
(*   state   the smt_state_t                                               *)
(*   call    the last call on the staging buffer, with its arguments and   *)
(*           results (out is the value buffer a fetch was given, zeroed by *)
(*           the caller before the call; len is state->len when the call   *)
(*           was made)                                                     *)
(*   hist    per key the value passed to the most recent insert (<<>> when *)
(*           none), kept while no insert has returned                      *)
(*           InsufficientCapacity, and whether one has                     *)
(*   proof   the proof bytes handed to smt_verify                          *)
(*   hash    the expected root handed to smt_verify                        *)
(*   vm      smt_calculate_root's locals and position                      *)
(*   verify  smt_verify's position ("idle", "calc" inside its call of      *)
(*           smt_calculate_root, "done") and returned code                 *)
(*   scn     the scenario: the tree and the keys the proof was generated   *)
(*           for, what was done to the inputs since ("none", "flip" of one *)
(*           bit, "cut" of the proof), and whether smt_verify accepted the *)
(*           inputs as they were before that                               *)
(***************************************************************************)
VARIABLES state, call, hist, proof, hash, vm, verify, scn

vars == <<state, call, hist, proof, hash, vm, verify, scn>>

FlipBits == {0, 1, 255}

AllKeys == StateKeys \cup TreeKeys

NoCall ==
    [op |-> "init", key |-> Zero32, value |-> Zero32, ret |-> 0, out |-> Zero32,
     len |-> 0]

InitHist == [latest |-> [k \in AllKeys |-> <<>>], overflow |-> FALSE]

\* smt_calculate_root not yet entered: its locals hold nothing written.
Idle == [Entry(Uninit32) EXCEPT !.pc = "idle"]

\* The staging calls alone: smt_calculate_root is never entered and has no
\* locals.
NotEntered == [pc |-> "idle"]

NoVerify == [pc |-> "idle", ret |-> 0]

NoScenario == [tree |-> <<>>, leaves |-> {}, tamper |-> "none", accepted |-> FALSE]

LeafSets == {L \in SUBSET TreeKeys : Cardinality(L) <= MaxLeaves}

(***************************************************************************)
(* The staging buffer's calls.                                             *)
(***************************************************************************)
InitState ==
    /\ \E capacity \in 0..MaxCapacity : state = smt_state_new(capacity)
    /\ call = NoCall
    /\ hist = InitHist
    /\ proof = <<>>
    /\ hash = Zero32
    /\ vm = NotEntered
    /\ verify = NoVerify
    /\ scn = NoScenario

Insert(k, v) ==
    LET r == smt_state_insert(state, k, v)
    IN /\ state' = r.state
       /\ call' = [op |-> "insert", key |-> k, value |-> v, ret |-> r.ret,
                   out |-> Zero32, len |-> state.len]
       /\ hist' = IF hist.overflow \/ r.ret /= 0
                   THEN [InitHist EXCEPT !.overflow = TRUE]
                   ELSE [hist EXCEPT !.latest[k] = v]
       /\ UNCHANGED <<proof, hash, vm, verify, scn>>

Fetch(k) ==
    LET r == smt_state_fetch(state, k, Zero32)
    IN /\ call' = [op |-> "fetch", key |-> k, value |-> Zero32, ret |-> r.ret,
                   out |-> r.value, len |-> state.len]
       /\ UNCHANGED <<state, hist, proof, hash, vm, verify, scn>>

Normalize ==
    /\ state' = smt_state_normalize(state)
    /\ call' = [op |-> "normalize", key |-> Zero32, value |-> Zero32, ret |-> 0,
                out |-> Zero32, len |-> state.len]
    /\ UNCHANGED <<hist, proof, hash, vm, verify, scn>>

\* smt_state_init called again on the state in use, over the buffer it is
\* bound to and with a capacity the buffer has room for: len becomes 0, the
\* buffer keeps what it holds, and the inserts made so far are forgotten.
Reinit(capacity) ==
    /\ state' = smt_state_init(state.pairs, capacity)
    /\ call' = [NoCall EXCEPT !.len = state.len]
    /\ hist' = InitHist
    /\ UNCHANGED <<proof, hash, vm, verify, scn>>

NextState ==
    \/ \E capacity \in 0..Len(state.pairs) : Reinit(capacity)
    \/ \E k \in StateKeys, v \in StateValues : Insert(k, v)
    \/ \E k \in FetchKeys : Fetch(k)
    \/ Normalize

SpecState == InitState /\ [][NextState]_vars

(***************************************************************************)
(* smt_verify and the loop of smt_calculate_root, one iteration a step.    *)
(***************************************************************************)
VerifyCall ==
    /\ verify.pc = "idle"
    /\ vm' = Entry(Uninit32)
    /\ verify' = [pc |-> "calc", ret |-> 0]
    /\ UNCHANGED <<state, call, hist, proof, hash, scn>>

InLoop(op) ==
    /\ vm.pc = "loop"
    /\ vm.proof_index < Len(proof)
    /\ IF op \in {OpcodeL, OpcodeP, OpcodeH}
       THEN Opcode(vm, proof) = op
       ELSE Opcode(vm, proof) \notin {OpcodeL, OpcodeP, OpcodeH}

OpL ==
    /\ InLoop(OpcodeL)
    /\ vm' = Case0x4C(vm, state, proof)
    /\ UNCHANGED <<state, call, hist, proof, hash, verify, scn>>

OpP ==
    /\ InLoop(OpcodeP)
    /\ vm' = Case0x50(vm, state, proof)
    /\ UNCHANGED <<state, call, hist, proof, hash, verify, scn>>

OpH ==
    /\ InLoop(OpcodeH)
    /\ vm' = Case0x48(vm, state, proof)
    /\ UNCHANGED <<state, call, hist, proof, hash, verify, scn>>

OpDefault ==
    /\ InLoop(-1)
    /\ vm' = CaseDefault(vm, state, proof)
    /\ UNCHANGED <<state, call, hist, proof, hash, verify, scn>>

LoopExit ==
    /\ vm.pc = "loop"
    /\ vm.proof_index >= Len(proof)
    /\ vm' = AfterLoop(vm, state, proof)
    /\ UNCHANGED <<state, call, hist, proof, hash, verify, scn>>

VerifyReturn ==
    /\ verify.pc = "calc"
    /\ vm.pc = "ret"
    /\ verify' = [pc |-> "done", ret |-> VerifyResult(vm.ret, vm.buffer, hash)]
    /\ UNCHANGED <<state, call, hist, proof, hash, vm, scn>>

(***************************************************************************)
(* Round trip: the leaves of a scenario are inserted in any order into an  *)
(* empty state that has room for them, the state is normalized, and        *)
(* smt_verify is called with the tree's root and the prover's proof.  For  *)
(* a tree that holds exactly the leaves the proof is also taken in its     *)
(* padded form, with a P of zero sibling at every height that has none.    *)
(***************************************************************************)
InitRoundTrip ==
    \E T \in Trees, L \in LeafSets \ {{}}, full \in BOOLEAN :
        /\ full => DOMAIN T = L
        /\ \E capacity \in Cardinality(L)..MaxLeaves : state = smt_state_new(capacity)
        /\ call = NoCall
        /\ hist = InitHist
        /\ proof = Prove(T, L, full)
        /\ hash = TreeRoot(T)
        /\ vm = Idle
        /\ verify = NoVerify
        /\ scn = [tree |-> T, leaves |-> L, tamper |-> "none", accepted |-> FALSE]

InsertLeaf ==
    /\ call.op \in {"init", "insert"}
    /\ \E k \in scn.leaves :
          /\ hist.latest[k] = <<>>
          /\ Insert(k, TreeValue(scn.tree, k))

NormalizeLeaves ==
    /\ call.op = "insert"
    /\ \A k \in scn.leaves : hist.latest[k] /= <<>>
    /\ Normalize

VerifyLeaves ==
    /\ call.op = "normalize"
    /\ VerifyCall

NextRoundTrip ==
    \/ InsertLeaf
    \/ NormalizeLeaves
    \/ VerifyLeaves
    \/ OpL
    \/ OpP
    \/ OpH
    \/ LoopExit
    \/ VerifyReturn

SpecRoundTrip == InitRoundTrip /\ [][NextRoundTrip]_vars

(***************************************************************************)
(* Verification of given inputs: a normalized state of leaves, the proof   *)
(* the prover generated for them and the root of their tree, which a third *)
(* party may alter before smt_verify is called, by flipping one bit of the *)
(* proof, of the expected root, of a leaf key or of a leaf value, or by    *)
(* cutting the proof short.                                                *)
(***************************************************************************)
\* The state a caller builds for the leaves L of T: the pairs inserted in
\* descending key order, then normalized.
LeavesState(T, L) ==
    LET ks == SortKeys(L)
        n == Len(ks)
    IN smt_state_normalize(
           [pairs |-> [i \in 1..n |->
                          smt_pair_t(ks[n + 1 - i], TreeValue(T, ks[n + 1 - i]), 0)],
            len |-> n, capacity |-> n])

\* data with the bit at offset inverted.
FlipBit(data, offset) ==
    IF _smt_get_bit(data, offset) = 1
    THEN _smt_clear_bit(data, offset)
    ELSE _smt_set_bit(data, offset)

InitVerify ==
    \E T \in Trees, L \in LeafSets :
        /\ state = LeavesState(T, L)
        /\ call = NoCall
        /\ hist = InitHist
        /\ proof = Prove(T, L, FALSE)
        /\ hash = TreeRoot(T)
        /\ vm = Idle
        /\ verify = NoVerify
        /\ scn = [tree |-> T, leaves |-> L, tamper |-> "none", accepted |-> FALSE]

Untouched == verify.pc = "idle" /\ scn.tamper = "none"

Altered(how) ==
    scn' = [scn EXCEPT !.tamper = how,
                       !.accepted = (smt_verify(hash, state, proof) = 0)]

FlipProof ==
    /\ Untouched
    /\ \E i \in 0..(MaxFlipByte - 1), b \in 0..7 :
          /\ i < Len(proof)
          /\ proof' = FlipBit(proof, 8 * i + b)
    /\ Altered("flip")
    /\ UNCHANGED <<state, call, hist, hash, vm, verify>>

FlipHash ==
    /\ Untouched
    /\ \E b \in FlipBits : hash' = FlipBit(hash, b)
    /\ Altered("flip")
    /\ UNCHANGED <<state, call, hist, proof, vm, verify>>

FlipKey ==
    /\ Untouched
    /\ \E i \in 1..state.len, b \in FlipBits :
          state' = [state EXCEPT !.pairs[i].key = FlipBit(@, b)]
    /\ Altered("flip")
    /\ UNCHANGED <<call, hist, proof, hash, vm, verify>>

FlipValue ==
    /\ Untouched
    /\ \E i \in 1..state.len, b \in FlipBits :
          state' = [state EXCEPT !.pairs[i].value = FlipBit(@, b)]
    /\ Altered("flip")
    /\ UNCHANGED <<call, hist, proof, hash, vm, verify>>

CutProof ==
    /\ Untouched
    /\ \E n \in 0..(Len(proof) - 1) : proof' = SubSeq(proof, 1, n)
    /\ Altered("cut")
    /\ UNCHANGED <<state, call, hist, hash, vm, verify>>

NextVerify ==
    \/ FlipProof
    \/ FlipHash
    \/ FlipKey
    \/ FlipValue
    \/ CutProof
    \/ VerifyCall
    \/ OpL
    \/ OpP
    \/ OpH
    \/ OpDefault
    \/ LoopExit
    \/ VerifyReturn

SpecVerify == InitVerify /\ [][NextVerify]_vars

(***************************************************************************)
(* smt_calculate_root on arbitrary inputs: a state that need not be        *)
(* normalized and proof bytes that need not be a proof.  The proof is a    *)
(* concatenation of at most MaxOps pieces, each a whole instruction, an    *)
(* instruction cut short, or a byte that is no opcode; a piece cut short   *)
(* takes its operand from the bytes that follow it.  A second family of    *)
(* inputs fills the stack: _SMT_STACK_SIZE leaves, as many L, and one more *)
(* piece.  The function is entered directly, with a caller's buffer that   *)
(* holds CallerBuffer, or through smt_verify.                              *)
(*                                                                         *)
(* In this specification scn counts what the run has done: the loop        *)
(* iterations started, and the L, P and H opcodes that ran to their break  *)
(* (pushed, absorbed, merged).                                             *)
(***************************************************************************)
MaxOps == 3

SiblingOne == ByteAt(0, 7)

CallerBuffer == ByteAt(31, 170)

InsL == <<OpcodeL>>

InsP(height, sibling) == <<OpcodeP, height>> \o sibling

InsH(height) == <<OpcodeH, height>>

\* P with 32 of its 33 operand bytes, H without its height, a byte that is
\* no opcode.
CutP == <<OpcodeP, 1>> \o SubSeq(Zero32, 1, 31)
CutH == <<OpcodeH>>
NoOpcode == <<0>>

Pieces ==
    {InsL, InsP(0, SiblingOne), InsP(255, Zero32), InsH(0), InsH(1),
     CutP, CutH, NoOpcode}

RECURSIVE ProofsUpTo(_)
ProofsUpTo(n) ==
    IF n = 0 THEN {<<>>}
    ELSE LET shorter == ProofsUpTo(n - 1)
         IN shorter \cup {p \o a : p \in shorter, a \in Pieces}

\* The smt_state_t that holds the given (key, value) pairs in the given order.
StateOf(kvs) ==
    [pairs |-> [i \in 1..Len(kvs) |-> smt_pair_t(kvs[i][1], kvs[i][2], 0)],
     len |-> Len(kvs), capacity |-> Len(kvs)]

CalcStates ==
    {StateOf(kvs) : kvs \in
        {<<>>,
         <<<<KeyZero, ValueOne>>>>,
         <<<<TreeKeyBit0, ValueOne>>>>,
         <<<<TreeKeyLow3, Zero32>>>>,
         <<<<TreeKeyTop, ValueOne>>>>,
         <<<<KeyZero, ValueOne>>, <<TreeKeyBit0, ValueOne>>>>,
         <<<<TreeKeyBit0, ValueOne>>, <<KeyZero, ValueOne>>>>,
         <<<<KeyZero, ValueOne>>, <<TreeKeyLow3, ValueOne>>>>,
         <<<<TreeKeyBit0, ValueOne>>, <<TreeKeyLow3, ValueOne>>>>,
         <<<<KeyZero, Zero32>>, <<TreeKeyBit0, ValueOne>>>>,
         <<<<TreeKeyBit0, ValueOne>>, <<TreeKeyBit0, ValueTwo>>>>,
         <<<<KeyZero, ValueOne>>, <<TreeKeyTop, ValueOne>>>>,
         <<<<KeyZero, ValueOne>>, <<TreeKeyBit0, Zero32>>,
           <<TreeKeyLow3, ValueOne>>>>}}

\* _SMT_STACK_SIZE leaves with distinct keys, and the proofs that push them
\* all and go on with one piece.
FullStackState ==
    StateOf([i \in 1.._SMT_STACK_SIZE |-> <<ByteAt(1, i), ValueOne>>])

FullStackProofs ==
    {[i \in 1.._SMT_STACK_SIZE |-> OpcodeL] \o a : a \in Pieces \cup {<<>>}}

CalcInputs ==
    (CalcStates \X ProofsUpTo(MaxOps)) \cup ({FullStackState} \X FullStackProofs)

NoTrace == [iterations |-> 0, pushed |-> 0, absorbed |-> 0, merged |-> 0]

\* The counts after an iteration that left the locals m: the opcode counts
\* when it reached its break, not when it returned.
Traced(t, field, m) ==
    [t EXCEPT !.iterations = @ + 1,
              ![field] = IF m.pc = "loop" THEN @ + 1 ELSE @]

InitCalculate ==
    \E in \in CalcInputs :
        /\ state = in[1]
        /\ proof = in[2]
        /\ call = NoCall
        /\ hist = InitHist
        /\ hash = Zero32
        /\ vm = Idle
        /\ verify = NoVerify
        /\ scn = NoTrace

\* smt_calculate_root called with the caller's buffer.
CalcCall ==
    /\ verify.pc = "idle"
    /\ vm.pc = "idle"
    /\ vm' = Entry(CallerBuffer)
    /\ UNCHANGED <<state, call, hist, proof, hash, verify, scn>>

\* smt_verify called, which calls smt_calculate_root with its own buffer.
CalcVerify ==
    /\ vm.pc = "idle"
    /\ VerifyCall

CalcL ==
    /\ InLoop(OpcodeL)
    /\ vm' = Case0x4C(vm, state, proof)
    /\ scn' = Traced(scn, "pushed", vm')
    /\ UNCHANGED <<state, call, hist, proof, hash, verify>>

CalcP ==
    /\ InLoop(OpcodeP)
    /\ vm' = Case0x50(vm, state, proof)
    /\ scn' = Traced(scn, "absorbed", vm')
    /\ UNCHANGED <<state, call, hist, proof, hash, verify>>

CalcH ==
    /\ InLoop(OpcodeH)
    /\ vm' = Case0x48(vm, state, proof)
    /\ scn' = Traced(scn, "merged", vm')
    /\ UNCHANGED <<state, call, hist, proof, hash, verify>>

CalcDefault ==
    /\ InLoop(-1)
    /\ vm' = CaseDefault(vm, state, proof)
    /\ scn' = [scn EXCEPT !.iterations = @ + 1]
    /\ UNCHANGED <<state, call, hist, proof, hash, verify>>

NextCalculate ==
    \/ CalcCall
    \/ CalcVerify
    \/ CalcL
    \/ CalcP
    \/ CalcH
    \/ CalcDefault
    \/ LoopExit
    \/ VerifyReturn

SpecCalculate == InitCalculate /\ [][NextCalculate]_vars

(***************************************************************************)
(* Termination of smt_calculate_root: direct calls on the state of the two *)
(* leaves that differ at bit 0 with every proof of at most MaxOps pieces,  *)
(* and on the inputs that fill the stack.  The code runs on, so a call     *)
(* that can take a step takes it.                                          *)
(***************************************************************************)
TerminationInputs ==
    ({StateOf(<<<<KeyZero, ValueOne>>, <<TreeKeyBit0, ValueOne>>>>)}
        \X ProofsUpTo(MaxOps))
    \cup ({FullStackState} \X FullStackProofs)

InitTermination ==
    \E in \in TerminationInputs :
        /\ state = in[1]
        /\ proof = in[2]
        /\ call = NoCall
        /\ hist = InitHist
        /\ hash = Zero32
        /\ vm = Idle
        /\ verify = NoVerify
        /\ scn = NoTrace

NextTermination ==
    \/ CalcCall
    \/ CalcL
    \/ CalcP
    \/ CalcH
    \/ CalcDefault
    \/ LoopExit

SpecTermination ==
    InitTermination /\ [][NextTermination]_vars /\ WF_vars(NextTermination)

(***************************************************************************)
(* _smt_merge on its own, then in a run: _smt_merge is applied to two      *)
(* digests drawn from MergeDigests, and smt_calculate_root is run on a     *)
(* state of one leaf with a non-zero value and a proof that is L followed  *)
(* by at most MaxOps P, each with the zero sibling.  In this specification *)
(* scn holds the two digests, whether _smt_merge has been applied to them, *)
(* and the output it wrote.                                                *)
(***************************************************************************)
MergeDigests ==
    {Zero32, ByteAt(0, 1), ByteAt(31, 128), SiblingOne, blake2b(KeyZero, ValueOne)}

MergeHeights == {0, 255}

RECURSIVE ZeroSiblingProofs(_)
ZeroSiblingProofs(n) ==
    IF n = 0 THEN {InsL}
    ELSE LET shorter == ZeroSiblingProofs(n - 1)
         IN shorter \cup {p \o InsP(height, Zero32) : p \in shorter, height \in MergeHeights}

OneLeafStates ==
    {StateOf(<<<<k, v>>>>) : k \in {KeyZero, TreeKeyBit0, TreeKeyTop},
                             v \in {ValueOne, ValueTwo}}

InitMergeIdentity ==
    \E lhs \in MergeDigests, rhs \in MergeDigests,
       s \in OneLeafStates, p \in ZeroSiblingProofs(MaxOps) :
        /\ state = s
        /\ proof = p
        /\ call = NoCall
        /\ hist = InitHist
        /\ hash = Zero32
        /\ vm = Idle
        /\ verify = NoVerify
        /\ scn = [lhs |-> lhs, rhs |-> rhs, merged |-> FALSE, output |-> Zero32]

\* _smt_merge(lhs, rhs, output).
Merge ==
    /\ ~scn.merged
    /\ scn' = [scn EXCEPT !.merged = TRUE, !.output = _smt_merge(scn.lhs, scn.rhs)]
    /\ UNCHANGED <<state, call, hist, proof, hash, vm, verify>>

MergeCall ==
    /\ scn.merged
    /\ CalcCall

NextMergeIdentity ==
    \/ Merge
    \/ MergeCall
    \/ OpL
    \/ OpP
    \/ LoopExit

SpecMergeIdentity == InitMergeIdentity /\ [][NextMergeIdentity]_vars

(***************************************************************************)
(* Properties of the staging buffer, checked under SpecState.               *)
(***************************************************************************)
\* The live entries pairs[0..len-1] as (key, value) pairs.
Live(st) == [i \in 1..st.len |-> <<st.pairs[i].key, st.pairs[i].value>>]

\* The key ordering: byte 31 is the most significant byte, byte 0 the least.
KeyLess(a, b) ==
    \E j \in 1..32 : a[j] < b[j] /\ \A m \in (j + 1)..32 : a[m] = b[m]

\* C3: after inserts none of which returned InsufficientCapacity, fetch(k)
\* returns the value of the most recent insert with key k, and NotFound when
\* k was never inserted.
C3_FetchLatest ==
    (call.op = "fetch" /\ ~hist.overflow) =>
        IF hist.latest[call.key] = <<>>
        THEN call.ret = ERROR_NOT_FOUND
        ELSE call.ret = 0 /\ call.out = hist.latest[call.key]

\* A fetch that found a key the buffer holds twice with different values.
C3_Witness ==
    /\ call.op = "fetch" /\ ~hist.overflow /\ call.ret = 0
    /\ \E i, j \in 1..state.len :
          /\ i < j
          /\ state.pairs[i].key = call.key /\ state.pairs[j].key = call.key
          /\ state.pairs[i].value /= state.pairs[j].value

\* C4: after successful inserts followed by normalize, every key present
\* maps to the value of the latest insert with that key.
C4_NormalizeKeepsLatest ==
    (call.op = "normalize" /\ ~hist.overflow) =>
        \A i \in 1..state.len :
            state.pairs[i].value = hist.latest[state.pairs[i].key]

\* A normalize that collapsed a run of equal keys with different values: a
\* slot that was live when it was called, and is no longer, still holds the
\* dropped occurrence.
C4_Witness ==
    /\ call.op = "normalize" /\ ~hist.overflow
    /\ \E i \in 1..state.len, j \in (state.len + 1)..call.len :
          /\ state.pairs[j].key = state.pairs[i].key
          /\ state.pairs[j].value /= state.pairs[i].value

\* C5: after normalize the live entries have strictly increasing keys under
\* the byte-reverse ordering, hence no two share a key.
C5_NormalizeSortsStrictly ==
    call.op = "normalize" =>
        /\ \A i \in 1..(state.len - 1) :
              KeyLess(state.pairs[i].key, state.pairs[i + 1].key)
        /\ \A i, j \in 1..state.len :
              i /= j => state.pairs[i].key /= state.pairs[j].key

\* A normalize that left the two keys which byte 0 and byte 31 order
\* differently.
C5_Witness ==
    /\ call.op = "normalize"
    /\ \E i \in 1..state.len : state.pairs[i].key = KeyLow2
    /\ \E i \in 1..state.len : state.pairs[i].key = KeyMixed

\* C6: a second normalize right after a normalize leaves the same len and the
\* same sequence of (key, value) pairs.
C6_NormalizeIdempotent ==
    call.op = "normalize" =>
        /\ smt_state_normalize(state).len = state.len
        /\ Live(smt_state_normalize(state)) = Live(state)

\* A normalize that removed entries and left at least two.
C6_Witness ==
    /\ call.op = "normalize"
    /\ state.len >= 2
    /\ call.len > state.len

\* C7: 0 <= len <= capacity in every reachable state, and no insert, fetch
\* or normalize call changes capacity; capacity 0 included.
C7_LenWithinCapacity ==
    /\ [](0 <= state.len /\ state.len <= state.capacity)
    /\ [][call'.op \in {"insert", "fetch", "normalize"} =>
             state'.capacity = state.capacity]_vars

\* An insert on a state of capacity 0 whose buffer has room for more.
C7_Witness ==
    call.op = "insert" /\ state.capacity = 0 /\ Len(state.pairs) > 0

\* C8: insert on a full state overwrites the value of the highest-index entry
\* with the key and changes nothing else, returning 0; with no such entry it
\* returns InsufficientCapacity and changes nothing.
C8_InsertOnFull ==
    [][(call'.op = "insert" /\ state.len = state.capacity) =>
          LET M == {i \in 1..state.len : state.pairs[i].key = call'.key}
          IN IF M /= {}
             THEN /\ call'.ret = 0
                  /\ state' = [state EXCEPT !.pairs[Max(M)].value = call'.value]
             ELSE /\ call'.ret = ERROR_INSUFFICIENT_CAPACITY
                  /\ state' = state]_vars

\* A full state of capacity at least 2 whose last insert was refused.
C8_Witness ==
    /\ call.op = "insert" /\ call.ret = ERROR_INSUFFICIENT_CAPACITY
    /\ state.len = state.capacity /\ state.capacity >= 2

\* C18: for every key, fetch right after a normalize returns what fetch
\* returned right before it, the value or NotFound, and len after the
\* normalize is the number of distinct keys among the entries before it.
C18_NormalizeKeepsKeys ==
    [][call'.op = "normalize" =>
          /\ \A k \in FetchKeys :
                smt_state_fetch(state', k, Zero32) = smt_state_fetch(state, k, Zero32)
          /\ state'.len = Cardinality({state.pairs[i].key : i \in 1..state.len})]_vars

\* A normalize of three live entries that dropped one and copied another
\* down: both keys are live, the third slot still holds the entry the copy
\* was made from, and the second keeps the order of the entry it replaced.
C18_Witness ==
    /\ call.op = "normalize"
    /\ state.len = 2 /\ call.len = 3 /\ state.capacity = 3
    /\ state.pairs[1].key = KeyLow2 /\ state.pairs[2].key = KeyMixed
    /\ state.pairs[3].key = KeyMixed
    /\ state.pairs[3].value = state.pairs[2].value
    /\ state.pairs[3].order = 1
    /\ state.pairs[2].order = 3

(***************************************************************************)
(* Properties of smt_verify.                                               *)
(***************************************************************************)
\* The program reads no memory it has not written: the live entries of the
\* staging buffer have written keys and values (and, once normalized,
\* written orders), the frames below stack_top are written, and so is the
\* buffer of a call that returned 0.
ReadsDeterminate ==
    /\ \A i \in 1..state.len :
          /\ Determinate32(state.pairs[i].key)
          /\ Determinate32(state.pairs[i].value)
          /\ call.op = "normalize" => state.pairs[i].order >= 0
    /\ vm.pc \in {"loop", "ret"} =>
          /\ \A i \in 1..vm.stack_top :
                /\ Determinate32(vm.stack_keys[i])
                /\ Determinate32(vm.stack_values[i])
          /\ (vm.pc = "ret" /\ vm.ret = 0) => Determinate32(vm.buffer)

\* No digest in play is outside the range where the BLAKE2b model is
\* injective.
Blake2bInDomain ==
    /\ hash /= Blake2bOverflow
    /\ vm.buffer /= Blake2bOverflow
    /\ \A i \in 1.._SMT_STACK_SIZE : vm.stack_values[i] /= Blake2bOverflow

\* The tree of the two non-zero leaves that differ only at bit 0.
TwoLeafTree == [k \in {KeyZero, TreeKeyBit0} |-> ValueOne]

\* C1: for every tree and every non-empty set of its leaves, inserted in any
\* order into a state with room for them and normalized, smt_verify with the
\* tree's root and the prover's proof returns 0; for the two non-zero leaves
\* that differ only at bit 0 the computed root is
\* hash(hash(k1 || v1) || hash(k2 || v2)).
C1_RoundTrip ==
    verify.pc = "done" =>
        /\ verify.ret = 0
        /\ (scn.tree = TwoLeafTree /\ scn.leaves = DOMAIN TwoLeafTree) =>
              vm.buffer = blake2b(blake2b(KeyZero, ValueOne),
                                  blake2b(TreeKeyBit0, ValueOne))

\* smt_verify has accepted the padded proof L, L, H 0, P 1 .. P 255 of the
\* two leaves that differ only at bit 0, staged in a buffer whose third slot
\* was never written.
C1_Witness ==
    /\ verify.pc = "done" /\ verify.ret = 0
    /\ scn.tree = TwoLeafTree /\ scn.leaves = DOMAIN TwoLeafTree
    /\ state.capacity = 3 /\ state.pairs[3] = UninitPair
    /\ Len(proof) = 4 + 255 * 34
    /\ SubSeq(proof, 1, 4) = <<OpcodeL, OpcodeL, OpcodeH, 0>>

\* C2: when smt_verify accepts (state, proof, expected root), it returns
\* InvalidProof, InvalidSibling or InvalidStack, never 0, after one bit of
\* the proof, of a leaf value, of a leaf key or of the expected root is
\* flipped.
C2_TamperResistance ==
    (verify.pc = "done" /\ scn.tamper = "flip" /\ scn.accepted) =>
        verify.ret \in {ERROR_INVALID_PROOF, ERROR_INVALID_SIBLING, ERROR_INVALID_STACK}

\* C9: smt_verify returns 0 exactly when smt_calculate_root succeeded and
\* its root equals the expected root byte for byte; when
\* smt_calculate_root failed it returns that code, and when the roots differ
\* it returns InvalidProof.
C9_VerifyResult ==
    verify.pc = "done" =>
        /\ verify.ret = 0 <=> (vm.ret = 0 /\ vm.buffer = hash)
        /\ vm.ret /= 0 => verify.ret = vm.ret
        /\ (vm.ret = 0 /\ vm.buffer /= hash) => verify.ret = ERROR_INVALID_PROOF

\* smt_calculate_root succeeded with a root other than the expected one.
C9_Witness ==
    /\ verify.pc = "done" /\ vm.ret = 0 /\ vm.buffer /= hash
    /\ verify.ret = ERROR_INVALID_PROOF

\* C10: once the whole proof is consumed with no opcode failing,
\* smt_calculate_root returns InvalidProof if leave_index differs from
\* state.len, whatever the stack depth, else InvalidStack if the depth is not
\* 1, else 0 with the digest of the one remaining frame; the empty proof on
\* the empty state returns InvalidStack.
C10_Termination ==
    /\ (vm.pc = "ret" /\ vm.line \in {271, 274, 277}) =>
          IF vm.leave_index /= state.len THEN vm.ret = ERROR_INVALID_PROOF
          ELSE IF vm.stack_top /= 1 THEN vm.ret = ERROR_INVALID_STACK
          ELSE vm.ret = 0 /\ vm.buffer = vm.stack_values[1]
    /\ (vm.pc = "ret" /\ proof = <<>> /\ state.len = 0) =>
          vm.ret = ERROR_INVALID_STACK

\* The proof ran out with leaves left over and a stack depth other than 1.
C10_Witness ==
    /\ vm.pc = "ret" /\ vm.line = 271
    /\ vm.proof_index = Len(proof)
    /\ vm.leave_index /= state.len /\ vm.stack_top /= 1
    /\ vm.ret = ERROR_INVALID_PROOF

(***************************************************************************)
(* Properties of smt_calculate_root on arbitrary inputs, checked under     *)
(* SpecCalculate.                                                          *)
(***************************************************************************)
\* The frames of the evaluation stack and the cursor into the leaves.
Frames(m) == <<m.stack_top, m.stack_keys, m.stack_values, m.leave_index>>

\* The iteration about to run reads the opcode op and finds the stack at a
\* depth the opcode cannot run at.
Refused(op) ==
    /\ InLoop(op)
    /\ CASE op = OpcodeL -> vm.stack_top >= _SMT_STACK_SIZE
         [] op = OpcodeP -> vm.stack_top = 0
         [] op = OpcodeH -> vm.stack_top < 2

\* C11: for any proof bytes and any state the stack depth stays within
\* 0.._SMT_STACK_SIZE; an L at depth _SMT_STACK_SIZE, a P at depth 0 and an
\* H at depth below 2 return InvalidStack and leave every frame as it was.
C11_StackBound ==
    /\ [](0 <= vm.stack_top /\ vm.stack_top <= _SMT_STACK_SIZE)
    /\ [][(Refused(OpcodeL) \/ Refused(OpcodeP) \/ Refused(OpcodeH)) =>
             /\ vm'.pc = "ret"
             /\ vm'.ret = ERROR_INVALID_STACK
             /\ Frames(vm') = Frames(vm)]_vars

\* An L met the full stack, with every leaf of the state already pushed.
C11_Witness ==
    /\ vm.pc = "ret" /\ vm.line = 193
    /\ vm.stack_top = _SMT_STACK_SIZE
    /\ vm.leave_index = state.len
    /\ vm.ret = ERROR_INVALID_STACK

\* The proof, read from byte i by the length of each instruction (1 for L,
\* 2 for H, 34 for P), ends inside the operand of a P or of an H.
RECURSIVE EndsMidOperand(_, _)
EndsMidOperand(bytes, i) ==
    IF i >= Len(bytes) THEN FALSE
    ELSE CASE bytes[i + 1] = OpcodeL -> EndsMidOperand(bytes, i + 1)
           [] bytes[i + 1] = OpcodeP ->
                 IF i + 34 > Len(bytes) THEN TRUE ELSE EndsMidOperand(bytes, i + 34)
           [] bytes[i + 1] = OpcodeH ->
                 IF i + 2 > Len(bytes) THEN TRUE ELSE EndsMidOperand(bytes, i + 2)
           [] OTHER -> FALSE

\* C12 as claimed: every proof that ends inside the operand of a P or of an
\* H makes smt_calculate_root return InvalidProof.
C12_TruncatedProof ==
    (vm.pc = "ret" /\ EndsMidOperand(proof, 0)) => vm.ret = ERROR_INVALID_PROOF

\* C12 as amended: an iteration that reads a P with fewer than 33 bytes after
\* it, or an H with no byte after it, returns; it returns InvalidStack when
\* the stack is too shallow for the opcode (empty for P, below 2 for H) and
\* InvalidProof otherwise.
C12_TruncatedOperand ==
    [][/\ (InLoop(OpcodeP) /\ vm.proof_index + 34 > Len(proof)) =>
             /\ vm'.pc = "ret"
             /\ vm'.ret = IF vm.stack_top = 0 THEN ERROR_INVALID_STACK
                          ELSE ERROR_INVALID_PROOF
       /\ (InLoop(OpcodeH) /\ vm.proof_index + 2 > Len(proof)) =>
             /\ vm'.pc = "ret"
             /\ vm'.ret = IF vm.stack_top < 2 THEN ERROR_INVALID_STACK
                          ELSE ERROR_INVALID_PROOF]_vars

\* A P on a non-empty stack with 32 of its 33 operand bytes was refused.
C12_Witness ==
    /\ vm.pc = "ret" /\ vm.line = 218
    /\ vm.stack_top >= 1
    /\ Len(proof) - vm.proof_index = 32
    /\ vm.ret = ERROR_INVALID_PROOF

\* The iteration about to run reads an H, with two frames or more on the
\* stack and its height byte in the proof.
AtH == InLoop(OpcodeH) /\ vm.stack_top >= 2 /\ vm.proof_index + 2 <= Len(proof)

\* The keys are siblings at height h, lower first: bit h is 0 in lower and 1
\* in upper, and they agree on every bit above h.
SiblingsAt(lower, upper, h) ==
    /\ SpecBit(lower, h) = 0
    /\ SpecBit(upper, h) = 1
    /\ \A i \in (h + 1)..255 : SpecBit(lower, i) = SpecBit(upper, i)

\* C14: an H at height h succeeds exactly when the lower frame's key has bit
\* h clear, the upper frame's key has it set, and the keys agree above h;
\* it then leaves merge(v_lower, v_upper) in the lower frame, and in every
\* other case it returns InvalidSibling.
C14_SiblingOrder ==
    [][AtH =>
          LET h == proof[vm.proof_index + 2]
              a == vm.stack_top - 1
              b == vm.stack_top
          IN IF SiblingsAt(vm.stack_keys[a], vm.stack_keys[b], h)
             THEN /\ vm'.pc = "loop"
                  /\ vm'.stack_top = a
                  /\ vm'.stack_values[a] =
                        SpecMerge(vm.stack_values[a], vm.stack_values[b])
             ELSE /\ vm'.pc = "ret"
                  /\ vm'.ret = ERROR_INVALID_SIBLING]_vars

\* An H at height 0 was refused for the two leaves that differ at bit 0 only,
\* pushed upper first.
C14_Witness ==
    /\ vm.pc = "ret" /\ vm.line = 255 /\ vm.ret = ERROR_INVALID_SIBLING
    /\ proof = InsL \o InsL \o InsH(0)
    /\ state.pairs[1].key = TreeKeyBit0
    /\ state.pairs[2].key = KeyZero

\* C15: no step of smt_calculate_root or of smt_verify changes the state or
\* the proof; smt_calculate_root writes the caller's buffer only in the step
\* that returns 0, so after every error return the buffer holds what the
\* caller put there.
C15_FrameEffect ==
    /\ [][state' = state /\ proof' = proof]_vars
    /\ [][(vm.pc = "loop" /\ vm'.buffer /= vm.buffer) =>
             (vm'.pc = "ret" /\ vm'.ret = 0)]_vars
    /\ []((verify.pc = "idle" /\ vm.pc = "ret" /\ vm.ret /= 0) =>
             vm.buffer = CallerBuffer)

\* The proof ran out with two frames computed, the bottom one non-zero, and
\* the caller's buffer is as it was.
C15_Witness ==
    /\ verify.pc = "idle"
    /\ vm.pc = "ret" /\ vm.line = 274 /\ vm.ret = ERROR_INVALID_STACK
    /\ vm.stack_top = 2
    /\ vm.stack_values[1] /= Zero32
    /\ vm.buffer = CallerBuffer

\* The iteration about to run reads a P, with a frame on the stack and its
\* 33 operand bytes in the proof.
AtP == InLoop(OpcodeP) /\ vm.stack_top >= 1 /\ vm.proof_index + 34 <= Len(proof)

\* C16: a P with height h and sibling s on a stack of depth 1 or more keeps
\* the depth, replaces the top digest v by merge(s, v) when bit h of the top
\* key before the opcode is 1 and by merge(v, s) otherwise, clears bits 0..h
\* of the top key and keeps its bits above h, and changes no other frame.
C16_AbsorbSibling ==
    [][AtP =>
          LET h == proof[vm.proof_index + 2]
              s == SubSeq(proof, vm.proof_index + 3, vm.proof_index + 34)
              t == vm.stack_top
              k == vm.stack_keys[t]
              v == vm.stack_values[t]
          IN /\ vm'.pc = "loop"
             /\ vm'.stack_top = t
             /\ vm'.leave_index = vm.leave_index
             /\ vm'.stack_values[t] =
                   IF SpecBit(k, h) = 1 THEN SpecMerge(s, v) ELSE SpecMerge(v, s)
             /\ \A i \in 0..255 :
                   SpecBit(vm'.stack_keys[t], i) = IF i <= h THEN 0 ELSE SpecBit(k, i)
             /\ \A j \in 1.._SMT_STACK_SIZE :
                   j /= t => /\ vm'.stack_keys[j] = vm.stack_keys[j]
                             /\ vm'.stack_values[j] = vm.stack_values[j]]_vars

\* A P at height 0 with a non-zero sibling ran on the second of two frames,
\* whose key had bits 0 and 1 set: the sibling went to the left and bit 1 of
\* the key stayed.
C16_Witness ==
    /\ vm.pc = "loop" /\ vm.proof_index = 36 /\ vm.stack_top = 2
    /\ SubSeq(proof, 1, 36) = InsL \o InsL \o InsP(0, SiblingOne)
    /\ state.pairs[2].key = TreeKeyLow3
    /\ vm.stack_keys[2] = ByteAt(0, 2)
    /\ vm.stack_values[2] = blake2b(SiblingOne, blake2b(TreeKeyLow3, ValueOne))
    /\ vm.stack_values[1] /= Zero32

\* C17: the i-th L that runs (i from 0) pushes the key of pairs[i] with the
\* zero digest when the pair's value is zero, whatever the key, and with
\* hash(key || value) otherwise; leave_index is the number of L that have
\* pushed and never exceeds state.len; an L that finds leave_index at
\* state.len, the stack not being full, returns InvalidProof.
C17_LeafOrder ==
    /\ [](vm.leave_index = scn.pushed /\ vm.leave_index <= state.len)
    /\ [][(InLoop(OpcodeL) /\ vm.stack_top < _SMT_STACK_SIZE) =>
             IF scn.pushed = state.len
             THEN /\ vm'.pc = "ret"
                  /\ vm'.ret = ERROR_INVALID_PROOF
             ELSE LET p == state.pairs[scn.pushed + 1]
                      t == vm.stack_top + 1
                  IN /\ vm'.pc = "loop"
                     /\ vm'.stack_top = t
                     /\ vm'.stack_keys[t] = p.key
                     /\ vm'.stack_values[t] =
                           IF p.value = Zero32 THEN Zero32
                           ELSE blake2b(p.key, p.value)]_vars

\* The second L pushed a leaf with a non-zero key and the zero value, above
\* a frame with a non-zero digest.
C17_Witness ==
    /\ vm.pc = "loop" /\ scn.pushed = 2 /\ vm.stack_top = 2
    /\ state.pairs[2].key = TreeKeyBit0 /\ state.pairs[2].value = Zero32
    /\ vm.stack_keys[2] = TreeKeyBit0
    /\ vm.stack_values[2] = Zero32
    /\ vm.stack_values[1] = blake2b(KeyZero, ValueOne)

\* C19: at the head of every loop iteration the stack depth is the number
\* of L that pushed less the number of H that merged, and a P leaves it as
\* it is; a run that returns 0 has pushed state.len >= 1 leaves and merged
\* state.len - 1 times, so no run returns 0 on the empty state.
C19_StackAccounting ==
    /\ [](vm.pc = "loop" => vm.stack_top = scn.pushed - scn.merged)
    /\ [][InLoop(OpcodeP) => vm'.stack_top = vm.stack_top]_vars
    /\ []((vm.pc = "ret" /\ vm.ret = 0) =>
             /\ state.len >= 1
             /\ scn.pushed = state.len
             /\ scn.merged = state.len - 1)

\* A run of two L and one H has returned 0.
C19_Witness ==
    /\ vm.pc = "ret" /\ vm.ret = 0
    /\ state.len = 2 /\ scn.pushed = 2 /\ scn.merged = 1

\* C20: every run of smt_calculate_root returns.  An iteration that does
\* not return moves proof_index on by 1 for L, 34 for P and 2 for H;
\* proof_index, below which every byte read lies, never passes the proof's
\* length; a byte that is no opcode returns InvalidProof at once; so a run
\* takes at most as many iterations as the proof has bytes, and returns 0,
\* InvalidStack, InvalidSibling or InvalidProof.
C20_Termination ==
    /\ (vm.pc = "loop") ~> (vm.pc = "ret")
    /\ [][(vm.pc = "loop" /\ vm'.pc = "loop") =>
             \/ InLoop(OpcodeL) /\ vm'.proof_index = vm.proof_index + 1
             \/ InLoop(OpcodeP) /\ vm'.proof_index = vm.proof_index + 34
             \/ InLoop(OpcodeH) /\ vm'.proof_index = vm.proof_index + 2]_vars
    /\ [][InLoop(-1) => (vm'.pc = "ret" /\ vm'.ret = ERROR_INVALID_PROOF)]_vars
    /\ [](vm.proof_index <= Len(proof) /\ scn.iterations <= Len(proof))
    /\ [](vm.pc = "ret" =>
             vm.ret \in {0, ERROR_INVALID_STACK, ERROR_INVALID_SIBLING,
                         ERROR_INVALID_PROOF})

\* A run met a byte that is no opcode after a P had consumed its 34 bytes.
C20_Witness ==
    /\ vm.pc = "ret" /\ vm.line = 266 /\ vm.ret = ERROR_INVALID_PROOF
    /\ scn.absorbed >= 1
    /\ scn.iterations = 3
    /\ vm.proof_index = 36

(***************************************************************************)
(* Properties of _smt_merge, checked under SpecMergeIdentity.               *)
(***************************************************************************)
\* C13: _smt_merge gives rhs for a zero lhs and lhs for a zero rhs, hence
\* zero for two zeros, and the hash of lhs || rhs for two non-zero digests;
\* and one leaf with a non-zero value followed by P opcodes whose siblings
\* are all zero yields the root hash(key || value).
C13_MergeIdentity ==
    /\ scn.merged =>
          /\ scn.lhs = Zero32 => scn.output = scn.rhs
          /\ scn.rhs = Zero32 => scn.output = scn.lhs
          /\ (scn.lhs /= Zero32 /\ scn.rhs /= Zero32) =>
                /\ scn.output = blake2b(scn.lhs, scn.rhs)
                /\ scn.output /= Blake2bOverflow
    /\ vm.pc = "ret" =>
          /\ vm.ret = 0
          /\ vm.buffer = blake2b(state.pairs[1].key, state.pairs[1].value)
          /\ vm.buffer /= Blake2bOverflow

\* Two non-zero digests were merged, and a run over a leaf whose key has bit
\* 0 set and two or more P with the zero sibling has returned.
C13_Witness ==
    /\ scn.merged /\ scn.lhs /= Zero32 /\ scn.rhs /= Zero32
    /\ vm.pc = "ret" /\ vm.ret = 0
    /\ state.pairs[1].key = TreeKeyBit0
    /\ Len(proof) >= 1 + 34 + 34

=============================================================================
